---- MODULE Spec2Model ----
(***************************************************************************)
(* Model of src/index.tsx: the NSE market dashboard.  One fetch cycle is   *)
(* click -> setLoading(true) -> await generateContent -> extract the JSON  *)
(* payload -> JSON.parse -> render summary / sector chart / MWPL chart ->  *)
(* render the citations -> (catch: displayError) -> finally                *)
(* setLoading(false).  JavaScript is single threaded: everything between   *)
(* two awaits runs as one step, so a click handler up to its await, the    *)
(* continuation after the await, and one timer callback are the atomic     *)
(* actions.                                                                *)
(***************************************************************************)
EXTENDS Integers, Sequences, FiniteSets, TLC

VARIABLES
    ai,        \* TRUE iff `new GoogleGenAI(...)` returned (ai is defined)
    dom,       \* the elements looked up in lines 9-16 and their properties
    pending,   \* number of generateContent promises not yet settled
    timers,    \* FIFO queue of the setTimeout(..., 10) callbacks not yet run
    last,      \* the reply handled last and how its handler ended
    install    \* the install banner, deferredPrompt and the install clicks
               \* waiting for the user's choice

vars == <<ai, dom, pending, timers, last, install>>

(***************************************************************************)
(* Bounds of the model.                                                    *)
(***************************************************************************)
\* longest reply text, in tokens and without the objects that may frame it,
\* of the extraction specification
MaxTextLen == 5
\* a new request is modelled only while at most this many callbacks of
\* earlier cycles are still queued
MaxStaleTimers == 1
\* requests in flight at once when fetchNews is called past the disabled button
MaxInFlight == 2
\* longest list of grounding chunks of the citation specification
MaxChunks == 3
\* most items of a chart of the chart specification
MaxItems == 2
\* most beforeinstallprompt events the browser dispatches
MaxInstallEvents == 4

(***************************************************************************)
(* JavaScript values produced by JSON.parse.  Every value is a record so   *)
(* that values of different types can be compared.  An object is a record  *)
(* over the keys the program reads, with Undefined for a key that the      *)
(* JSON text does not carry (reading a missing key yields undefined).      *)
(***************************************************************************)
Undefined == [t |-> "undefined"]
Null == [t |-> "null"]
Num(n) == [t |-> "num", n |-> n]
Str(s) == [t |-> "str", s |-> s]
Arr(items) == [t |-> "arr", v |-> items]

\* JavaScript truthiness of the values above (used by `if (data.summary)` ...)
Truthy(v) ==
    CASE v.t = "undefined" -> FALSE
      [] v.t = "null" -> FALSE
      [] v.t = "num" -> v.n # 0
      [] v.t = "str" -> v.s # ""
      [] OTHER -> TRUE

Abs(n) == IF n < 0 THEN -n ELSE n

(***************************************************************************)
(* The page.  display is the inline style.display of the element; html is  *)
(* its content.  NoHtml is innerHTML = ''.                                  *)
(***************************************************************************)
NoHtml == [kind |-> "empty"]

InitPrefix == "Failed to initialize the AI client. Please ensure the API key is set correctly."
NotInitializedMessage == "AI client is not initialized."
FetchErrorPrefix == "An error occurred while fetching news: "

\* The page as index.html delivers it: nothing shown, nothing rendered.
InitialDom ==
    [ fetchBtn             |-> [disabled |-> FALSE],
      loader               |-> [display |-> "none"],
      newsContainer        |-> [display |-> "none", html |-> NoHtml],
      performanceContainer |-> [display |-> "none", html |-> NoHtml],
      mwplContainer        |-> [display |-> "none", html |-> NoHtml],
      sourcesContainer     |-> [display |-> "none"],
      sourcesList          |-> <<>>,
      errorMessage         |-> [display |-> "none", textContent |-> <<>>] ]

Containers == {"newsContainer", "performanceContainer", "mwplContainer"}

\* Mutant: the sector chart is not hidden.
DisplayErrorLeavesChart(d, message) ==
    [d EXCEPT !.newsContainer.display = "none",
              !.sourcesContainer.display = "none",
              !.mwplContainer.display = "none",
              !.errorMessage.textContent = message,
              !.errorMessage.display = "block"]

\* displayError(message), lines 35-42.  message is the sequence of the
\* pieces the template string concatenates.
DisplayError(d, message) ==
    [d EXCEPT !.newsContainer.display = "none",
              !.sourcesContainer.display = "none",
              !.performanceContainer.display = "none",
              !.mwplContainer.display = "none",
              !.errorMessage.textContent = message,
              !.errorMessage.display = "block"]

\* Assigning innerHTML of a chart container removes the bars it held from
\* the document; callbacks that captured them keep a detached element.
Detach(q, container) ==
    [i \in 1..Len(q) |->
        IF q[i].container = container THEN [q[i] EXCEPT !.inDoc = FALSE] ELSE q[i]]

\* Mutant: the button is not disabled while loading.
SetLoadingKeepsEnabled(w, isLoading) ==
    IF isLoading
    THEN [ dom |-> [w.dom EXCEPT !.loader.display = "block",
                                 !.newsContainer = [display |-> "none", html |-> NoHtml],
                                 !.performanceContainer = [display |-> "none", html |-> NoHtml],
                                 !.mwplContainer = [display |-> "none", html |-> NoHtml],
                                 !.sourcesList = <<>>,
                                 !.sourcesContainer.display = "none",
                                 !.errorMessage.display = "none"],
           timers |-> Detach(Detach(w.timers, "performanceContainer"), "mwplContainer") ]
    ELSE [ dom |-> [w.dom EXCEPT !.loader.display = "none",
                                 !.fetchBtn.disabled = FALSE],
           timers |-> w.timers ]

\* Mutant: the error banner of the previous cycle is not hidden.
SetLoadingLeavesError(w, isLoading) ==
    IF isLoading
    THEN [ dom |-> [w.dom EXCEPT !.loader.display = "block",
                                 !.fetchBtn.disabled = TRUE,
                                 !.newsContainer = [display |-> "none", html |-> NoHtml],
                                 !.performanceContainer = [display |-> "none", html |-> NoHtml],
                                 !.mwplContainer = [display |-> "none", html |-> NoHtml],
                                 !.sourcesList = <<>>,
                                 !.sourcesContainer.display = "none"],
           timers |-> Detach(Detach(w.timers, "performanceContainer"), "mwplContainer") ]
    ELSE [ dom |-> [w.dom EXCEPT !.loader.display = "none",
                                 !.fetchBtn.disabled = FALSE],
           timers |-> w.timers ]

\* Mutant: the citation container of the previous cycle is not hidden.
SetLoadingLeavesSources(w, isLoading) ==
    IF isLoading
    THEN [ dom |-> [w.dom EXCEPT !.loader.display = "block",
                                 !.fetchBtn.disabled = TRUE,
                                 !.newsContainer = [display |-> "none", html |-> NoHtml],
                                 !.performanceContainer = [display |-> "none", html |-> NoHtml],
                                 !.mwplContainer = [display |-> "none", html |-> NoHtml],
                                 !.sourcesList = <<>>,
                                 !.errorMessage.display = "none"],
           timers |-> Detach(Detach(w.timers, "performanceContainer"), "mwplContainer") ]
    ELSE [ dom |-> [w.dom EXCEPT !.loader.display = "none",
                                 !.fetchBtn.disabled = FALSE],
           timers |-> w.timers ]

\* setLoading(isLoading), lines 48-65, on the page and the timer queue.
SetLoading(w, isLoading) ==
    IF isLoading
    THEN [ dom |-> [w.dom EXCEPT !.loader.display = "block",
                                 !.fetchBtn.disabled = TRUE,
                                 !.newsContainer = [display |-> "none", html |-> NoHtml],
                                 !.performanceContainer = [display |-> "none", html |-> NoHtml],
                                 !.mwplContainer = [display |-> "none", html |-> NoHtml],
                                 !.sourcesList = <<>>,
                                 !.sourcesContainer.display = "none",
                                 !.errorMessage.display = "none"],
           timers |-> Detach(Detach(w.timers, "performanceContainer"), "mwplContainer") ]
    ELSE [ dom |-> [w.dom EXCEPT !.loader.display = "none",
                                 !.fetchBtn.disabled = FALSE],
           timers |-> w.timers ]

(***************************************************************************)
(* Reply texts.  A text is a sequence of tokens; each token stands for a   *)
(* piece of the string that the code can tell apart:                       *)
(*   TokFence  the characters ```json                                      *)
(*   TokTicks  the characters ```                                          *)
(*   TokNL     a newline (the only white space token)                      *)
(*   TokDoc    the serialisation {...} of the reply's JSON object: it      *)
(*             starts with '{', ends with '}' and is valid JSON            *)
(*   TokValue  the characters [1,2]: valid JSON that is not an object (a   *)
(*             number, a string or true are parsed and read the same way)  *)
(*   TokNull   the characters null: valid JSON, the value null             *)
(*   TokProse  the characters prose: no JSON value                         *)
(* No two of the last four, written one after the other, are valid JSON.  *)
(***************************************************************************)
TokFence == "[3 backticks]json"
TokTicks == "[3 backticks]"
TokNL == "\n"
TokDoc == "{doc}"
TokValue == "[1,2]"
TokNull == "null"
TokProse == "prose"
Tokens == {TokFence, TokTicks, TokNL, TokDoc, TokValue, TokNull, TokProse}

\* String.prototype.trim, line 295
Trim(text) ==
    LET keep == {i \in 1..Len(text) : text[i] # TokNL}
    IN  IF keep = {} THEN <<>>
        ELSE LET lo == CHOOSE i \in keep : \A j \in keep : i <= j
                 hi == CHOOSE i \in keep : \A j \in keep : j <= i
             IN  SubSeq(text, lo, hi)

\* Positions where the literal ```json\n of the pattern matches.
FenceOpens(s) == {i \in 1..Len(s) - 1 : s[i] = TokFence /\ s[i + 1] = TokNL}

\* Positions, after an opening at i, where the literal \n``` matches.  The
\* three backticks of the pattern also match the start of ```json.
FenceCloses(s, i) ==
    {j \in (i + 2)..(Len(s) - 1) : s[j] = TokNL /\ s[j + 1] \in {TokTicks, TokFence}}

\* responseText.match(...) with the fence pattern, line 298: the leftmost
\* opening that has a closing, and the shortest capture from it.
JsonMatch(s) ==
    LET starts == {i \in FenceOpens(s) : FenceCloses(s, i) # {}}
    IN  IF starts = {} THEN [matched |-> FALSE, group1 |-> <<>>]
        ELSE LET i == CHOOSE a \in starts : \A b \in starts : a <= b
                 j == CHOOSE a \in FenceCloses(s, i) : \A b \in FenceCloses(s, i) : a <= b
             IN  [matched |-> TRUE, group1 |-> SubSeq(s, i + 2, j - 1)]

StartsWithBrace(s) == Len(s) > 0 /\ s[1] = TokDoc
EndsWithBrace(s) == Len(s) > 0 /\ s[Len(s)] = TokDoc

\* `jsonMatch && jsonMatch[1]`, line 300: the match exists and its capture
\* is a non-empty string
FenceTaken(m) == m.matched /\ m.group1 # <<>>

\* Lines 295-308: the candidate string, or found = FALSE where line 307
\* throws.  via tells which branch chose it.
ExtractPayload(text) ==
    LET responseText == Trim(text)
        jsonMatch == JsonMatch(responseText)
    IN  IF FenceTaken(jsonMatch)
        THEN [found |-> TRUE, via |-> "fence", jsonString |-> jsonMatch.group1]
        ELSE IF StartsWithBrace(responseText) /\ EndsWithBrace(responseText)
        THEN [found |-> TRUE, via |-> "bare", jsonString |-> responseText]
        ELSE [found |-> FALSE, via |-> "none", jsonString |-> <<>>]

\* JSON.parse(jsonString), line 310: white space around the value is
\* skipped; the string is valid exactly when what is left is one JSON value,
\* an object or not.
JsonValid(jsonString) ==
    LET rest == SelectSeq(jsonString, LAMBDA tok : tok # TokNL)
    IN  Len(rest) = 1 /\ rest[1] \in {TokDoc, TokValue, TokNull}

\* The value JSON.parse returns for a valid string; data is the object that
\* TokDoc serialises.
JsonParse(jsonString, data) ==
    LET rest == SelectSeq(jsonString, LAMBDA tok : tok # TokNL)
    IN  IF rest[1] = TokDoc THEN data
        ELSE IF rest[1] = TokValue THEN Arr(<<Num(1), Num(2)>>)
        ELSE Null

\* data.summary, data.sectorPerformance and data.mwplPerformance, lines
\* 312-319: the members of an object; undefined on any other value
Members(parsed) ==
    IF "t" \in DOMAIN parsed
    THEN [summary |-> Undefined, sectorPerformance |-> Undefined, mwplPerformance |-> Undefined]
    ELSE parsed

FormatErrorCause == "Error: Could not find a valid JSON block in the response."
SyntaxErrorCause == "SyntaxError"
TypeErrorCause == "TypeError"

(***************************************************************************)
(* Charts.  A PeriodPerformance object carries the three declared keys and *)
(* possibly one the program does not declare ("other").                    *)
(***************************************************************************)
Periods == <<"current", "oneWeekAgo", "twoWeeksAgo">>
PeriodClass == <<"current", "one-week", "two-weeks">>
PerfKeys == {"current", "oneWeekAgo", "twoWeeksAgo", "other"}

NaN == [t |-> "nan"]

(***************************************************************************)
(* Double precision arithmetic of lines 134 and 209.  The numbers of a     *)
(* reply are integers; the quotient and the product are IEEE 754 doubles,  *)
(* rounded to nearest, ties to even.  A natural number beyond 2^31 is a    *)
(* sequence of limbs in base 10000, least significant limb first.          *)
(***************************************************************************)
\* x * c + carry, for 0 <= c < 200000
RECURSIVE BigMulAdd(_, _, _)
BigMulAdd(x, c, carry) ==
    IF x = <<>>
    THEN IF carry = 0 THEN <<>> ELSE <<carry % 10000>> \o BigMulAdd(<<>>, c, carry \div 10000)
    ELSE LET t == Head(x) * c + carry
         IN  <<t % 10000>> \o BigMulAdd(Tail(x), c, t \div 10000)

\* x - k, for 0 <= k <= 10000 and k <= x
RECURSIVE BigSub(_, _)
BigSub(x, k) ==
    IF k = 0 THEN x
    ELSE IF Head(x) >= k THEN <<Head(x) - k>> \o Tail(x)
    ELSE <<Head(x) + 10000 - k>> \o BigSub(Tail(x), 1)

\* quotient and remainder of x by m, for 0 < m < 200000
RECURSIVE BigDiv(_, _)
BigDiv(x, m) ==
    IF x = <<>> THEN [q |-> <<>>, r |-> 0]
    ELSE LET hi == BigDiv(Tail(x), m)
             t == hi.r * 10000 + Head(x)
         IN  [q |-> <<t \div m>> \o hi.q, r |-> t % m]

RECURSIVE BigNorm(_)
BigNorm(x) == IF x # <<>> /\ x[Len(x)] = 0 THEN BigNorm(SubSeq(x, 1, Len(x) - 1)) ELSE x

\* The decimal digits of a big number, most significant first, in a field of
\* w digits.
Digits(x, w) ==
    [i \in 1..w |->
        LET k == w - i
            limb == k \div 4 + 1
            p == k % 4
        IN  IF limb > Len(x) THEN 0
            ELSE (x[limb] \div (CASE p = 0 -> 1 [] p = 1 -> 10 [] p = 2 -> 100 [] OTHER -> 1000)) % 10]

SeqLess(a, b) == \E i \in 1..Len(a) : a[i] < b[i] /\ \A j \in 1..(i - 1) : a[j] = b[j]

\* x * c^n, for c = 2 or c = 5
RECURSIVE BigTimesPow(_, _, _)
BigTimesPow(x, c, n) ==
    IF n = 0 THEN x
    ELSE IF n < 7 THEN BigMulAdd(x, c ^ n, 0)
    ELSE BigMulAdd(BigTimesPow(x, c, n - 7), c ^ 7, 0)

\* 2^52, the least mantissa of a double
Two52 == BigTimesPow(<<1>>, 2, 52)

\* floor(log2(a / m)), for a > 0 and m > 0
RECURSIVE Log2Floor(_, _)
Log2Floor(a, m) ==
    IF a < m THEN Log2Floor(2 * a, m) - 1
    ELSE IF a \div 2 >= m THEN Log2Floor(a \div 2, m) + 1
    ELSE 0

\* A positive double is [m |-> mantissa, e |-> exponent]: the value m * 2^e
\* with 2^52 <= m < 2^53.  Rounded is the double nearest to (p / unit) * 2^e
\* for a quotient of 53 bits: round to nearest, ties to even, and a mantissa
\* rounded up to 2^53 is 2^52 with the next exponent.
Rounded(p, unit, e) ==
    LET d == BigDiv(p, unit)
        up == 2 * d.r > unit \/ (2 * d.r = unit /\ Head(d.q) % 2 = 1)
        m == BigNorm(IF up THEN BigMulAdd(d.q, 1, 1) ELSE d.q)
    IN  IF m = BigMulAdd(Two52, 2, 0) THEN [m |-> Two52, e |-> e + 1]
        ELSE [m |-> m, e |-> e]

\* The double a / m, for integers 0 < a < 10^7 and 0 < m < 200000
DoubleDiv(a, m) ==
    LET e == Log2Floor(a, m)
    IN  Rounded(BigTimesPow(BigMulAdd(<<>>, 1, a), 2, 52 - e), m, e - 52)

\* The double f * 100, for a positive double f: the product p of the
\* mantissa by 100 has 59 or 60 bits and loses its last 6 or 7.
DoubleTimes100(f) ==
    CHOOSE g \in {IF SeqLess(Digits(BigDiv(p, 128).q, 20), Digits(Two52, 20))  \* p < 2^59
                  THEN Rounded(p, 64, f.e + 6)
                  ELSE Rounded(p, 128, f.e + 7) : p \in {BigMulAdd(f.m, 100, 0)}} : TRUE

\* The shortest decimal that reads back as the double X and, among the
\* shortest, the closest to it.  X is the double and L and H are the
\* midpoints to its neighbours below and above, as digit fields of one
\* width; the midpoints themselves read back as X when its mantissa is even.
ShortestBetween(X, L, H, even) ==
    LET w == Len(X)
        \* X cut to k significant digits, and the next decimal of k digits
        Low(k, lead) == [i \in 1..w |-> IF i < lead + k THEN X[i] ELSE 0]
        High(k, lead) ==
            LET stop == CHOOSE i \in 0..(lead + k - 1) :
                            (i = 0 \/ X[i] # 9) /\ \A j \in (i + 1)..(lead + k - 1) : X[j] = 9
            IN  [i \in 1..w |-> IF i < stop THEN X[i] ELSE IF i = stop THEN X[i] + 1 ELSE 0]
        \* whether High is nearer to X than Low (a tie: the even digit)
        HighNearer(k, lead) ==
            /\ lead + k <= w
            /\ \/ X[lead + k] > 5
               \/ /\ X[lead + k] = 5
                  /\ (\E j \in (lead + k + 1)..w : X[j] # 0) \/ X[lead + k - 1] % 2 = 1
        \* the decimals of k digits that read back as X: the nearer one first
        Near(k, lead) ==
            SelectSeq(IF HighNearer(k, lead) THEN <<High(k, lead), Low(k, lead)>>
                      ELSE <<Low(k, lead), High(k, lead)>>,
                      LAMBDA d : IF even THEN ~SeqLess(d, L) /\ ~SeqLess(H, d)
                                 ELSE SeqLess(L, d) /\ SeqLess(d, H))
    IN  CHOOSE d \in
            {near[CHOOSE k \in 1..17 :
                      near[k] # <<>> /\ \A j \in 1..(k - 1) : near[j] = <<>>][1] :
                near \in {[k \in 1..17 |-> Near(k, lead)] :
                    lead \in {i \in 1..w : X[i] # 0 /\ \A j \in 1..(i - 1) : X[j] = 0}}} : TRUE

\* Number::toString of a positive double f below 2^53, as the template
\* literals of lines 135 and 210 apply it.  With n = 2 - f.e, the double
\* and the two midpoints are integers over 10^n (the midpoint below a power
\* of two is half as far).  The result is the number digits / 10^scale.
Shortest(f) ==
    LET n == (0 - f.e) + 2
        ax == BigMulAdd(f.m, 4, 0)
    IN  [digits |->
            CHOOSE d \in
                {ShortestBetween(b.X, b.L, b.H, Head(f.m) % 2 = 0) :
                    b \in {[X |-> Digits(BigTimesPow(ax, 5, n), n + 20),
                            L |-> Digits(BigTimesPow(BigSub(ax, IF f.m = Two52 THEN 1 ELSE 2),
                                                     5, n), n + 20),
                            H |-> Digits(BigTimesPow(BigMulAdd(ax, 1, 2), 5, n), n + 20)]}} : TRUE,
         scale |-> n]

RECURSIVE DigitText(_)
DigitText(d) == IF d = <<>> THEN "" ELSE ToString(Head(d)) \o DigitText(Tail(d))

RECURSIVE DigitValue(_)
DigitValue(d) == IF d = <<>> THEN 0 ELSE 10 * DigitValue(SubSeq(d, 1, Len(d) - 1)) + d[Len(d)]

\* style.width of a bar: not set, the invalid "NaN%", or a percentage.  A
\* percentage carries the text of the number as `${barWidth}%` writes it
\* (float), and the same decimal as its whole part and the digits after the
\* point.
NoWidth == [unit |-> "unset"]
NaNWidth == [unit |-> "NaN%"]
DecimalWidth(d) ==
    LET w == Len(d.digits)
        whole == DigitValue(SubSeq(d.digits, 1, w - d.scale))
        digs == SubSeq(d.digits, w - d.scale + 1, w)
        used == {i \in 1..Len(digs) : digs[i] # 0}
        frac == IF used = {} THEN <<>>
                ELSE SubSeq(digs, 1, CHOOSE i \in used : \A j \in used : j <= i)
    IN  [unit |-> "%",
         float |-> IF frac = <<>> THEN ToString(whole)
                   ELSE ToString(whole) \o "." \o DigitText(frac),
         whole |-> whole, frac |-> frac]

\* (a / m) * 100 and its text, for integers a >= 0 and m >= 1
ComputedWidth(a, m) ==
    IF a = 0 THEN [unit |-> "%", float |-> "0", whole |-> 0, frac |-> <<>>]
    ELSE CHOOSE width \in
             {DecimalWidth(decimal) :
                 decimal \in {Shortest(product) :
                     product \in {DoubleTimes100(quotient) :
                         quotient \in {DoubleDiv(a, m)}}}} : TRUE

RECURSIVE Tabulated(_)
Tabulated(pairs) ==
    IF pairs = {} THEN <<>>
    ELSE LET a == (CHOOSE x \in pairs : TRUE)[1]
             row == {x \in pairs : x[1] = a}
         IN  [p \in row |-> ComputedWidth(p[1], p[2])] @@ Tabulated(pairs \ row)
TabulatedWidths ==
    Tabulated({0, 1, 5, 7, 10, 20, 45, 57, 70, 90, 100, 120} \X {1, 5, 7, 10, 20, 70, 100})

BarWidth(a, m) ==
    CHOOSE width \in {IF <<a, m>> \in DOMAIN known THEN known[<<a, m>>]
                      ELSE ComputedWidth(a, m) : known \in {TabulatedWidths}} : TRUE

\* Object.values(d.performance), line 103: the values of the keys present
ObjectValues(perf) == {perf[k] : k \in {k \in PerfKeys : perf[k] # Undefined}}

\* Object.values(x) throws for undefined and null
ObjectValuesThrows(perf) == perf.t \in {"undefined", "null"}

\* Infinity, which Number reads from the text "Infinity"; -Infinity is the
\* same record with neg TRUE.
Infinity == [t |-> "inf", neg |-> FALSE]

\* Number(s), the StringToNumber of the language: white space around the
\* text is dropped; the empty text is 0; then "Infinity" with an optional
\* sign, or 0x / 0o / 0b and digits of that base (no sign), or a decimal
\* literal: optional sign, digits with at most one point and at least one
\* digit, optional exponent (e or E, optional sign, digits).  Every other
\* text is NaN.  -0 is held as 0.  The numbers of the model are the
\* integers of up to 9 digits (7 hexadecimal digits, 9 octal, 29 binary,
\* leading zeros not counted): a literal whose decimal value is not one of
\* them is the record [t |-> "num"] without a value, and nothing is computed
\* from it.  (Exponents have up to 3 digits.  The strings of the model are
\* ASCII, and of the white space of the language they hold the space, tab,
\* line feed, carriage return and form feed.)
StringToNumber(s) ==
    LET WhiteSpace == {" ", "\t", "\n", "\r", "\f"}
        Other == [t |-> "num"]
        At(str, i) == SubSeq(str, i, i)
        From(str, i) == SubSeq(str, i, Len(str))
        Upto(str, i) == SubSeq(str, 1, i)
        Least(S) == CHOOSE i \in S : \A j \in S : i <= j
        Most(S) == CHOOSE i \in S : \A j \in S : j <= i
        IsDigit(c, base) ==
            \E d \in 1..base : c \in {At("0123456789abcdef", d), At("0123456789ABCDEF", d)}
        DigitOf(c) ==
            (CHOOSE d \in 1..16 : c \in {At("0123456789abcdef", d), At("0123456789ABCDEF", d)}) - 1
        AllDigits(str, base) == \A i \in 1..Len(str) : IsDigit(At(str, i), base)
        RECURSIVE Value(_, _)
        Value(str, base) ==
            IF str = "" THEN 0
            ELSE Value(Upto(str, Len(str) - 1), base) * base + DigitOf(At(str, Len(str)))
        RECURSIVE NoLeadingZeros(_)
        NoLeadingZeros(str) ==
            IF str # "" /\ Head(str) = "0" THEN NoLeadingZeros(Tail(str)) ELSE str
        \* NonDecimalIntegerLiteral: the digits after the prefix
        Radix(str, base, most) ==
            IF str = "" \/ ~AllDigits(str, base) THEN NaN
            ELSE IF Len(NoLeadingZeros(str)) > most THEN Other
            ELSE Num(Value(str, base))
        \* the exponent part after its letter: NaN when malformed, else
        \* [n |-> value], or Other for an exponent of more than 3 digits
        Exponent(str) ==
            CHOOSE r \in
                {IF digits = "" \/ ~AllDigits(digits, 10) THEN NaN
                 ELSE IF Len(NoLeadingZeros(digits)) > 3 THEN Other
                 ELSE [n |-> (IF Head(str) = "-" THEN -1 ELSE 1) * Value(digits, 10)] :
                    digits \in {IF str # "" /\ Head(str) \in {"+", "-"} THEN Tail(str)
                                ELSE str}} : TRUE
        \* mantissa and exponent: digits is the mantissa without its point,
        \* after the number of its digits behind the point
        Scaled(negative, digits, after, exp) ==
            LET nz == {i \in 1..Len(digits) : At(digits, i) # "0"}
                p == (Len(digits) - Most(nz)) + exp.n - after
            IN  IF digits = "" \/ exp = NaN THEN NaN
                ELSE IF nz = {} THEN Num(0)
                ELSE IF exp = Other \/ p < 0 \/ (Most(nz) - Least(nz)) + 1 + p > 9 THEN Other
                ELSE Num((IF negative THEN -1 ELSE 1)
                            * Value(SubSeq(digits, Least(nz), Most(nz))
                                        \o SubSeq("000000000", 1, p), 10))
        \* StrUnsignedDecimalLiteral other than Infinity
        Unsigned(negative, str) ==
            LET es == {i \in 1..Len(str) : At(str, i) \in {"e", "E"}}
                mant == IF es = {} THEN str ELSE Upto(str, Least(es) - 1)
                dots == {i \in 1..Len(mant) : At(mant, i) = "."}
                point == IF dots = {} THEN Len(mant) + 1 ELSE Least(dots)
            IN  IF \/ Cardinality(dots) > 1
                   \/ \E i \in 1..Len(mant) : i \notin dots /\ ~IsDigit(At(mant, i), 10)
                THEN NaN
                ELSE Scaled(negative, Upto(mant, point - 1) \o From(mant, point + 1),
                            IF dots = {} THEN 0 ELSE Len(mant) - point,
                            IF es = {} THEN [n |-> 0] ELSE Exponent(From(str, Least(es) + 1)))
        Prefixed(str, marks) == Len(str) > 1 /\ Upto(str, 2) \in marks
        Literal(str) ==
            IF str = "" THEN Num(0)
            ELSE IF str \in {"Infinity", "+Infinity"} THEN Infinity
            ELSE IF str = "-Infinity" THEN [Infinity EXCEPT !.neg = TRUE]
            ELSE IF Prefixed(str, {"0x", "0X", "0o", "0O", "0b", "0B"})
                 THEN Radix(From(str, 3),
                            IF Prefixed(str, {"0x", "0X"}) THEN 16
                            ELSE IF Prefixed(str, {"0o", "0O"}) THEN 8 ELSE 2,
                            IF Prefixed(str, {"0x", "0X"}) THEN 7
                            ELSE IF Prefixed(str, {"0o", "0O"}) THEN 9 ELSE 29)
            ELSE Unsigned(Head(str) = "-", IF Head(str) \in {"+", "-"} THEN Tail(str) ELSE str)
        inner == {i \in 1..Len(s) : At(s, i) \notin WhiteSpace}
    IN  IF inner = {} THEN Num(0) ELSE Literal(SubSeq(s, Least(inner), Most(inner)))

\* ToNumber(v), which Math.abs applies to its argument (line 104): null is
\* 0, undefined and an object are NaN, a string is read as a number, and an
\* array is read through its text: [] is "", [x] is the text of x (empty
\* for null and undefined), a longer array has a comma in it.
RECURSIVE ToNumber(_)
ToNumber(v) ==
    CASE v.t = "num" -> v
      [] v.t = "null" -> Num(0)
      [] v.t = "str" -> StringToNumber(v.s)
      [] v.t = "arr" ->
            IF Len(v.v) = 0 THEN Num(0)
            ELSE IF Len(v.v) > 1 THEN NaN
            ELSE IF v.v[1].t \in {"null", "undefined"} THEN Num(0)
            ELSE IF v.v[1].t \in {"num", "str", "arr"} THEN ToNumber(v.v[1])
            ELSE NaN
      [] OTHER -> NaN

\* Math.abs(v): NaN, Infinity or a magnitude
AbsIsNaN(v) == ToNumber(v) = NaN
AbsOf(v) ==
    CHOOSE r \in {IF x.t = "inf" THEN Infinity ELSE Abs(x.n) : x \in {ToNumber(v)}} : TRUE

SetMax(S) == CHOOSE x \in S : \A y \in S : y <= x

\* Lines 103-104: Math.max(...allValues.map(v => Math.abs(v)), 1)
MaxPerformance(items) ==
    LET allValues == UNION {ObjectValues(items[i].performance) : i \in 1..Len(items)}
    IN  IF \E v \in allValues : AbsIsNaN(v) THEN NaN
        ELSE IF \E v \in allValues : ToNumber(v).t = "inf" THEN Infinity
        ELSE Num(SetMax({AbsOf(v) : v \in allValues} \cup {1}))

\* Line 134: (Math.abs(period.value) / maxPerformance) * 100.  A number
\* over Infinity is 0.
SectorBarWidth(value, maxPerformance) ==
    IF maxPerformance = NaN THEN NaNWidth
    ELSE IF maxPerformance = Infinity THEN BarWidth(0, 1)
    ELSE BarWidth(Abs(value), maxPerformance.n)

\* Lines 169, 209: the same against the constant 100
MwplMaxPerformance == 100

\* Mutant: the width is clamped to the ceiling.
MwplBarWidthClamped(value) ==
    BarWidth(IF Abs(value) > MwplMaxPerformance THEN MwplMaxPerformance ELSE Abs(value),
             MwplMaxPerformance)

MwplBarWidth(value) == BarWidth(Abs(value), MwplMaxPerformance)

\* `period.value.toFixed(..)`, lines 132 and 207, throws for every value
\* that is not a number (null has no properties; a string has no toFixed).
ToFixedThrows(v) == v.t # "num"

\* Mutant: `if (!period.value) continue;`
PeriodSkippedWhenFalsy(v) == ~Truthy(v)

\* `if (period.value === undefined) continue;`, lines 124 and 199
PeriodSkipped(v) == v = Undefined

\* The first period of the object at which the loop of lines 123-139 throws,
\* 4 when it completes.
FirstThrow(perf) ==
    LET bad == {k \in 1..3 : ~PeriodSkipped(perf[Periods[k]]) /\ ToFixedThrows(perf[Periods[k]])}
    IN  IF bad = {} THEN 4 ELSE CHOOSE k \in bad : \A j \in bad : k <= j

\* The periods, below lim, for which the loop creates a bar.
BarPeriods(perf, lim) ==
    SelectSeq(<<1, 2, 3>>, LAMBDA k : k < lim /\ ~PeriodSkipped(perf[Periods[k]]))

\* Lines 129-132: the bar of a sector period
SectorBar(k, value) ==
    [ className |-> <<"chart-bar", IF value >= 0 THEN "positive" ELSE "negative", PeriodClass[k]>>,
      value |-> value, width |-> NoWidth ]

\* Lines 204-207: the bar of an MWPL period
MwplBar(k, value) ==
    [ className |-> <<"chart-bar", PeriodClass[k]>>, value |-> value, width |-> NoWidth ]

SectorBars(perf, lim) ==
    LET ks == BarPeriods(perf, lim)
    IN  [j \in 1..Len(ks) |-> SectorBar(ks[j], perf[Periods[ks[j]]].n)]

MwplBars(perf, lim) ==
    LET ks == BarPeriods(perf, lim)
    IN  [j \in 1..Len(ks) |-> MwplBar(ks[j], perf[Periods[ks[j]]].n)]

RECURSIVE ConcatAll(_)
ConcatAll(ss) == IF ss = <<>> THEN <<>> ELSE Head(ss) \o ConcatAll(Tail(ss))

\* The callbacks of lines 135 and 210 for the bars of item i: each captures
\* its bar element and the width computed for it.
BarTimers(container, i, widths, attached) ==
    [j \in 1..Len(widths) |->
        [container |-> container, item |-> i, bar |-> j,
         width |-> widths[j], inDoc |-> attached]]

Heading(title, items) == [kind |-> "chart", title |-> title, items |-> items]

Thrown(w, cause) == [dom |-> w.dom, timers |-> w.timers, error |-> cause]
Returned(w) == [dom |-> w.dom, timers |-> w.timers, error |-> ""]

\* renderSectorGraphs(performanceData), lines 88-148
RenderSectorGraphs(w, performanceData) ==
    LET c == "performanceContainer"
        \* lines 89-99: heading and legend replace the old content
        begun == [dom |-> [w.dom EXCEPT ![c].html = Heading("Sector Performance (%)", <<>>)],
                  timers |-> Detach(w.timers, c)]
    IN  IF performanceData.t # "arr" THEN Thrown(begun, TypeErrorCause)
        ELSE
        LET items == performanceData.v
            n == Len(items)
        IN  IF \E i \in 1..n : ObjectValuesThrows(items[i].performance)
            THEN Thrown(begun, TypeErrorCause)
            ELSE
            LET maxPerformance == MaxPerformance(items)
                bad == {i \in 1..n : FirstThrow(items[i].performance) <= 3}
                stop == IF bad = {} THEN n + 1 ELSE CHOOSE i \in bad : \A j \in bad : i <= j
                done == stop > n
                lim(i) == IF i = stop THEN FirstThrow(items[i].performance) ELSE 4
                bars(i) == SectorBars(items[i].performance, lim(i))
                widths(i) == [j \in 1..Len(bars(i)) |->
                                 SectorBarWidth(bars(i)[j].value, maxPerformance)]
                made == IF done THEN n ELSE stop
                chart == [i \in 1..n |-> [label |-> [text |-> items[i].sector, href |-> ""],
                                          bars |-> bars(i)]]
            IN  CHOOSE r \in
                    {IF done
                     THEN Returned([dom |-> [begun.dom EXCEPT
                                               ![c].html = Heading("Sector Performance (%)", chart),
                                               ![c].display = "block"],
                                    timers |-> begun.timers \o queued])
                     ELSE Thrown([dom |-> begun.dom, timers |-> begun.timers \o queued],
                                 TypeErrorCause) :
                        queued \in {ConcatAll([i \in 1..made |->
                                                 BarTimers(c, i, widths(i), done)])}} : TRUE

\* `data.mwpl.current`, line 193, throws when the item has no mwpl object
MwplMissing(item) == item.mwpl.t \in {"undefined", "null"}

\* renderMWPLChart(mwplData), lines 154-223
RenderMWPLChart(w, mwplData) ==
    LET c == "mwplContainer"
        begun == [dom |-> [w.dom EXCEPT ![c].html = Heading("Top 10 Stocks by MWPL (%)", <<>>)],
                  timers |-> Detach(w.timers, c)]
    IN  IF mwplData.t # "arr" THEN Thrown(begun, TypeErrorCause)
        ELSE
        LET items == mwplData.v
            n == Len(items)
            bad == {i \in 1..n : MwplMissing(items[i]) \/ FirstThrow(items[i].mwpl) <= 3}
            stop == IF bad = {} THEN n + 1 ELSE CHOOSE i \in bad : \A j \in bad : i <= j
            done == stop > n
            lim(i) == IF i = stop
                      THEN (IF MwplMissing(items[i]) THEN 1 ELSE FirstThrow(items[i].mwpl))
                      ELSE 4
            bars(i) == IF MwplMissing(items[i]) THEN <<>> ELSE MwplBars(items[i].mwpl, lim(i))
            widths(i) == [j \in 1..Len(bars(i)) |-> MwplBarWidth(bars(i)[j].value)]
            made == IF done THEN n ELSE stop
            \* lines 178-187: a link when data.url is truthy, else plain text
            label(i) == [text |-> items[i].stock,
                         href |-> IF Truthy(items[i].url) THEN items[i].url.s ELSE ""]
            chart == [i \in 1..n |-> [label |-> label(i), bars |-> bars(i)]]
        IN  CHOOSE r \in
                {IF done
                 THEN Returned([dom |-> [begun.dom EXCEPT
                                           ![c].html = Heading("Top 10 Stocks by MWPL (%)", chart),
                                           ![c].display = "block"],
                                timers |-> begun.timers \o queued])
                 ELSE Thrown([dom |-> begun.dom, timers |-> begun.timers \o queued],
                             TypeErrorCause) :
                    queued \in {ConcatAll([i \in 1..made |->
                                             BarTimers(c, i, widths(i), done)])}} : TRUE

\* The text `${summary.x}` interpolates: "undefined" when x is not there
SummaryField(summary, key) == IF summary.t = "obj" THEN summary[key] ELSE "undefined"

\* renderSummary(summary), lines 229-247
RenderSummary(w, summary) ==
    Returned([dom |-> [w.dom EXCEPT
                 !.newsContainer.html =
                     [kind |-> "summary",
                      marketOverview |-> SummaryField(summary, "marketOverview"),
                      keySectorNews |-> SummaryField(summary, "keySectorNews"),
                      majorCorporateAnnouncements |-> SummaryField(summary, "majorCorporateAnnouncements"),
                      economicPolicyFactors |-> SummaryField(summary, "economicPolicyFactors")],
                 !.newsContainer.display = "block"],
              timers |-> w.timers])

(***************************************************************************)
(* Citations, lines 323-347.  A grounding chunk is null or an object with  *)
(* an optional web reference {uri, title}.                                 *)
(***************************************************************************)
Web(uri, title) == [t |-> "obj", uri |-> uri, title |-> title]
Chunk(web) == [t |-> "obj", web |-> web]

\* `chunk.web && chunk.web.uri`, line 328
ChunkKept(chunk) == Truthy(chunk.web) /\ Truthy(chunk.web.uri)

\* Mutant: the Set is keyed by the uri alone.
SourceKeyByUri(chunk) == [uri |-> chunk.web.uri, title |-> Undefined]

\* JSON.stringify({uri, title}), line 329: the Set's key.  A title that is
\* undefined is left out of the string, so it comes back undefined.
SourceKey(chunk) == [uri |-> chunk.web.uri, title |-> chunk.web.title]

\* Set insertion order: the first occurrence of every key
RECURSIVE Distinct(_)
Distinct(keys) ==
    IF keys = <<>> THEN <<>>
    ELSE LET front == Distinct(SubSeq(keys, 1, Len(keys) - 1))
             k == keys[Len(keys)]
         IN  IF \E i \in 1..Len(front) : front[i] = k THEN front ELSE Append(front, k)

\* Lines 335-343: the list item of a key
SourceLink(key) ==
    [href |-> key.uri.s,
     textContent |-> IF Truthy(key.title) THEN key.title.s ELSE key.uri.s]

\* Mutant: the list is not emptied before the links are appended.
RenderSourcesAppends(w, groundingChunks) ==
    IF ~Truthy(groundingChunks) THEN Returned(w)
    ELSE
    LET chunks == groundingChunks.v
    IN  IF \E i \in 1..Len(chunks) : chunks[i] = Null
        THEN Thrown(w, TypeErrorCause)
        ELSE
        LET kept == SelectSeq(chunks, ChunkKept)
            sources == Distinct([i \in 1..Len(kept) |-> SourceKey(kept[i])])
        IN  IF Len(sources) > 0
            THEN Returned([dom |-> [w.dom EXCEPT
                                       !.sourcesList = w.dom.sourcesList \o
                                           [i \in 1..Len(sources) |-> SourceLink(sources[i])],
                                       !.sourcesContainer.display = "block"],
                           timers |-> w.timers])
            ELSE Returned(w)

\* Lines 323-347: the citations of the response
RenderSources(w, groundingChunks) ==
    IF ~Truthy(groundingChunks) THEN Returned(w)
    ELSE
    LET chunks == groundingChunks.v
        cleared == [dom |-> [w.dom EXCEPT !.sourcesList = <<>>], timers |-> w.timers]
    IN  IF \E i \in 1..Len(chunks) : chunks[i] = Null
        THEN Thrown(cleared, TypeErrorCause)   \* `chunk.web` of null
        ELSE
        LET kept == SelectSeq(chunks, ChunkKept)
            sources == Distinct([i \in 1..Len(kept) |-> SourceKey(kept[i])])
        IN  IF Len(sources) > 0
            THEN Returned([dom |-> [cleared.dom EXCEPT
                                       !.sourcesList = [i \in 1..Len(sources) |-> SourceLink(sources[i])],
                                       !.sourcesContainer.display = "block"],
                           timers |-> cleared.timers])
            ELSE Returned(cleared)

(***************************************************************************)
(* A reply of the AI service: the promise of line 287 is rejected with a   *)
(* reason, or fulfilled with a result whose text is a token sequence (or   *)
(* undefined), whose JSON object (what TokDoc serialises) is data and      *)
(* whose candidates[0].groundingMetadata.groundingChunks is chunks.        *)
(***************************************************************************)
Text(tokens) == [t |-> "text", tokens |-> tokens]

\* `if (data.summary)`, `if (data.sectorPerformance)`, `if (data.mwplPerformance)`
SectionRendered(section) == Truthy(section)

\* Mutant: the MWPL chart is rendered only inside the sector branch.
RenderAllNested(w, data, groundingChunks) ==
    CHOOSE r \in
        {IF c.error # "" THEN c ELSE RenderSources(c, groundingChunks) :
            c \in {IF b.error # "" THEN b
                   ELSE IF /\ SectionRendered(data.sectorPerformance)
                           /\ SectionRendered(data.mwplPerformance)
                        THEN RenderMWPLChart(b, data.mwplPerformance) ELSE b :
                b \in {IF a.error # "" THEN a
                       ELSE IF SectionRendered(data.sectorPerformance)
                            THEN RenderSectorGraphs(a, data.sectorPerformance) ELSE a :
                    a \in {IF SectionRendered(data.summary)
                           THEN RenderSummary(w, data.summary) ELSE Returned(w)}}}} : TRUE

\* Lines 312-347 on the parsed object: the three sections, then the sources;
\* the first throw ends it.
RenderAll(w, data, groundingChunks) ==
    CHOOSE r \in
        {IF c.error # "" THEN c ELSE RenderSources(c, groundingChunks) :
            c \in {IF b.error # "" THEN b
                   ELSE IF SectionRendered(data.mwplPerformance)
                        THEN RenderMWPLChart(b, data.mwplPerformance) ELSE b :
                b \in {IF a.error # "" THEN a
                       ELSE IF SectionRendered(data.sectorPerformance)
                            THEN RenderSectorGraphs(a, data.sectorPerformance) ELSE a :
                    a \in {IF SectionRendered(data.summary)
                           THEN RenderSummary(w, data.summary) ELSE Returned(w)}}}} : TRUE

\* The try block, lines 286-347, from the settling of the promise on.
TryBlock(w, reply) ==
    IF reply.settle = "rejected" THEN Thrown(w, reply.reason)
    ELSE IF reply.text = Undefined THEN Thrown(w, TypeErrorCause)  \* result.text.trim()
    ELSE
    LET payload == ExtractPayload(reply.text.tokens)
    IN  IF ~payload.found THEN Thrown(w, FormatErrorCause)
        ELSE IF ~JsonValid(payload.jsonString) THEN Thrown(w, SyntaxErrorCause)
        ELSE LET data == JsonParse(payload.jsonString, reply.data)
             IN  IF data = Null THEN Thrown(w, TypeErrorCause)  \* data.summary, line 312
                 ELSE RenderAll(w, Members(data), reply.chunks)

\* Mutant: the catch block shows the message and hides nothing.
CatchBlockShowsOnly(t) ==
    IF t.error # ""
    THEN [dom |-> [t.dom EXCEPT !.errorMessage.textContent = <<FetchErrorPrefix, t.error>>,
                                !.errorMessage.display = "block"],
          timers |-> t.timers]
    ELSE [dom |-> t.dom, timers |-> t.timers]

\* The catch block, lines 349-351
CatchBlock(t) ==
    IF t.error # ""
    THEN [dom |-> DisplayError(t.dom, <<FetchErrorPrefix, t.error>>), timers |-> t.timers]
    ELSE [dom |-> t.dom, timers |-> t.timers]

\* The finally block, lines 352-354
FinallyBlock(w) == SetLoading(w, FALSE)

\* Mutant: setLoading(false) at the end of the try block, not in a finally.
ContinuationNoFinally(w, reply) ==
    LET t == TryBlock(w, reply)
    IN  IF t.error = "" THEN SetLoading(t, FALSE) ELSE CatchBlock(t)

\* fetchNews from the await on: try, catch, finally
Continuation(w, reply) == FinallyBlock(CatchBlock(TryBlock(w, reply)))

Outcome(w, reply) == IF TryBlock(w, reply).error = "" THEN "Success" ELSE "Failed"

(***************************************************************************)
(* The replies the model feeds to the program.                             *)
(***************************************************************************)
Summary(tag) ==
    [t |-> "obj", marketOverview |-> <<"overview", tag>>, keySectorNews |-> <<"sectors", tag>>,
     majorCorporateAnnouncements |-> <<"corporate", tag>>,
     economicPolicyFactors |-> <<"policy", tag>>]

Perf(current, oneWeekAgo, twoWeeksAgo) ==
    [t |-> "obj", current |-> current, oneWeekAgo |-> oneWeekAgo,
     twoWeeksAgo |-> twoWeeksAgo, other |-> Undefined]

Sector(name, performance) == [sector |-> name, performance |-> performance]
Stock(name, url, mwpl) == [stock |-> name, url |-> url, mwpl |-> mwpl]

\* sector arrays of the documented shape
SectorA == Arr(<<Sector("NIFTY IT", Perf(Num(10), Num(-20), Num(5)))>>)
SectorB == Arr(<<Sector("NIFTY BANK", Perf(Undefined, Num(0), Undefined)),
                 Sector("NIFTY FMCG", Perf(Undefined, Undefined, Undefined))>>)
SectorShaped == {Arr(<<>>), SectorA, SectorB}

\* sector values with a shape defect
SectorNotArray == Str("n/a")
SectorNoPerformance == Arr(<<Sector("NIFTY IT", Undefined)>>)
SectorNullSample == Arr(<<Sector("NIFTY IT", Perf(Num(10), Undefined, Undefined)),
                          Sector("NIFTY BANK", Perf(Num(5), Null, Num(1)))>>)
SectorStringSample == Arr(<<Sector("NIFTY IT", Perf(Str("n/a"), Undefined, Undefined))>>)
SectorDefective == {SectorNotArray, SectorNoPerformance, SectorNullSample, SectorStringSample}

\* MWPL arrays of the documented shape
MwplA == Arr(<<Stock("RBLBANK", Str("https://www.moneycontrol.com/rblbank"),
                     Perf(Num(45), Undefined, Undefined))>>)
MwplB == Arr(<<Stock("SAIL", Undefined, Perf(Num(120), Num(57), Undefined))>>)
MwplShaped == {MwplA, MwplB}

\* MWPL values with a shape defect
MwplNotArray == Str("n/a")
MwplNoMwpl == Arr(<<Stock("RBLBANK", Undefined, Perf(Num(45), Undefined, Undefined)),
                    Stock("SAIL", Undefined, Undefined)>>)
MwplNullSample == Arr(<<Stock("SAIL", Undefined, Perf(Num(90), Null, Undefined))>>)
MwplDefective == {MwplNotArray, MwplNoMwpl, MwplNullSample}

Doc(summary, sectorPerformance, mwplPerformance) ==
    [summary |-> summary, sectorPerformance |-> sectorPerformance,
     mwplPerformance |-> mwplPerformance]

EmptyDoc == Doc(Undefined, Undefined, Undefined)

\* every subset of the three sections, each present one of the documented shape
ShapedDocs ==
    {Doc(s, p, m) : s \in {Undefined, Summary("a")},
                    p \in {Undefined} \cup SectorShaped,
                    m \in {Undefined} \cup MwplShaped}
    \cup {Doc(Summary("b"), Undefined, Undefined)}

\* objects with one shape defect, after a summary that renders
DefectiveDocs ==
    {Doc(Summary("a"), p, Undefined) : p \in SectorDefective}
    \cup {Doc(Summary("a"), SectorA, m) : m \in MwplDefective}
    \cup {Doc(Summary("a"), Null, MwplA)}

Docs == ShapedDocs \cup DefectiveDocs

\* grounding chunk lists
ChunkA == Chunk(Web(Str("https://a"), Str("A")))
ChunkB == Chunk(Web(Str("https://a"), Str("B")))
ChunkNoWeb == Chunk(Undefined)
ChunkLists ==
    {Arr(<<ChunkA, ChunkB, ChunkA>>), Arr(<<ChunkNoWeb>>), Arr(<<ChunkA, Null>>)}

\* reply texts, one for every way lines 295-310 can go
FencedText == <<TokProse, TokNL, TokFence, TokNL, TokDoc, TokNL, TokTicks, TokNL>>
BareText == <<TokNL, TokDoc, TokNL>>
ProseText == <<TokProse>>
FencedInvalidText == <<TokFence, TokNL, TokProse, TokNL, TokTicks>>
FencedEmptyText == <<TokFence, TokNL, TokNL, TokTicks>>
FencedValueText == <<TokFence, TokNL, TokValue, TokNL, TokTicks>>
FencedNullText == <<TokFence, TokNL, TokNull, TokNL, TokTicks>>
BareInvalidText == <<TokDoc, TokProse, TokDoc>>

Fulfilled(text, data, chunks) ==
    [settle |-> "fulfilled", reason |-> "", text |-> text, data |-> data, chunks |-> chunks]
Rejected(reason) ==
    [settle |-> "rejected", reason |-> reason, text |-> Undefined, data |-> EmptyDoc,
     chunks |-> Undefined]

Replies ==
    {Rejected("ApiError: quota exceeded")}
    \cup {Fulfilled(Undefined, EmptyDoc, Undefined)}
    \cup {Fulfilled(Text(x), EmptyDoc, Undefined) :
            x \in {ProseText, FencedInvalidText, FencedEmptyText, FencedValueText,
                   FencedNullText}}
    \cup {Fulfilled(Text(BareInvalidText), Doc(Summary("a"), Undefined, Undefined), Undefined)}
    \cup {Fulfilled(Text(FencedText), d, Undefined) : d \in Docs}
    \cup {Fulfilled(Text(BareText), d, Undefined) :
            d \in {EmptyDoc, Doc(Summary("a"), SectorA, MwplA)}}
    \cup {Fulfilled(Text(FencedText), d, c) :
            d \in {Doc(Summary("a"), Undefined, Undefined), Doc(Summary("a"), SectorA, MwplA)},
            c \in ChunkLists}

NoReply == [settle |-> "none"]
NoCycle == [reply |-> NoReply, outcome |-> "None"]

(***************************************************************************)
(* The state machine.                                                      *)
(***************************************************************************)
\* PWA installation, lines 359-390.  deferredPrompt is undefined (line 359),
\* null, or the BeforeInstallPromptEvent stashed last; events are numbered in
\* the order the browser dispatches them.  waiting holds the events whose
\* userChoice an install click awaits; threw records that an install click
\* read `.prompt` of undefined or null (a TypeError).
PromptEvent(n) == [t |-> "event", n |-> n]

InitialInstall ==
    [ banner |-> "none", deferredPrompt |-> Undefined, events |-> 0,
      waiting |-> {}, threw |-> FALSE ]

\* Mutant: fetchNews does not test the client.
ClientNeverMissing == FALSE

\* `if (!ai)`, line 253
ClientMissing == ~ai

\* Lines 23-29: the constructor returns or throws; when it throws the
\* catch block displays the initialisation error.
Init ==
    /\ ai \in BOOLEAN
    /\ dom = IF ai THEN InitialDom ELSE DisplayError(InitialDom, <<InitPrefix>>)
    /\ pending = 0
    /\ timers = <<>>
    /\ last = NoCycle
    /\ install = InitialInstall

\* fetchNews up to its await, lines 252-287
FetchNews ==
    IF ClientMissing
    THEN /\ dom' = DisplayError(dom, <<NotInitializedMessage>>)
         /\ UNCHANGED <<ai, pending, timers, last, install>>
    ELSE LET w == SetLoading([dom |-> dom, timers |-> timers], TRUE)
         IN  /\ dom' = w.dom
             /\ timers' = w.timers
             /\ pending' = pending + 1
             /\ UNCHANGED <<ai, last, install>>

\* A click on the trigger control, line 393.  A disabled button delivers
\* no click event.
Click ==
    /\ ~dom.fetchBtn.disabled
    /\ Len(timers) <= MaxStaleTimers
    /\ FetchNews

\* The promise of line 287, one of the pending ones, settles with `reply`
\* and fetchNews runs to its end.
Settle(reply) ==
    /\ \E w \in {Continuation([dom |-> dom, timers |-> timers], reply)} :
           /\ dom' = w.dom
           /\ timers' = w.timers
           /\ last' = [reply |-> reply,
                       outcome |-> Outcome([dom |-> dom, timers |-> timers], reply)]
    /\ pending' = pending - 1
    /\ UNCHANGED <<ai, install>>

Respond == pending > 0 /\ \E reply \in Replies : Settle(reply)

\* Mutant: the callback looks its bar up by position in the container
\* instead of holding the element.
ApplyWidthByPosition(d, timer) ==
    LET html == d[timer.container].html
    IN  IF /\ html.kind = "chart"
           /\ timer.item <= Len(html.items)
           /\ timer.bar <= Len(html.items[timer.item].bars)
           /\ timer.width # NaNWidth
        THEN [d EXCEPT ![timer.container].html.items[timer.item].bars[timer.bar].width = timer.width]
        ELSE d

\* Mutant: the callback sets no width.
ApplyWidthDropped(d, timer) == d

\* The assignment `bar.style.width = ...` of a callback.  An element that
\* left the document is no longer part of the page; "NaN%" is not a valid
\* width and the assignment is ignored.
ApplyWidth(d, timer) ==
    IF timer.inDoc /\ timer.width # NaNWidth
    THEN [d EXCEPT ![timer.container].html.items[timer.item].bars[timer.bar].width = timer.width]
    ELSE d

\* The oldest setTimeout callback of lines 135 / 210 runs (equal delays run
\* in the order they were set).
WidthTimer ==
    /\ timers # <<>>
    /\ dom' = ApplyWidth(dom, Head(timers))
    /\ timers' = Tail(timers)
    /\ UNCHANGED <<ai, pending, last, install>>

Next == Click \/ Respond \/ WidthTimer

Spec == Init /\ [][Next]_vars

\* The service settles every request (the transport has a timeout).
FairSpec == Spec /\ WF_vars(Respond)

\* The event loop also runs every timer callback that is due.
FairWidthSpec == Spec /\ WF_vars(Respond) /\ WF_vars(WidthTimer)

(***************************************************************************)
(* The installation specification: the browser's signals and the two       *)
(* controls of the banner, which take clicks while the banner is           *)
(* displayed.                                                              *)
(***************************************************************************)
\* the `beforeinstallprompt` listener, lines 361-368
BeforeInstallPrompt ==
    /\ install.events < MaxInstallEvents
    /\ install' = [install EXCEPT !.events = @ + 1,
                                  !.deferredPrompt = PromptEvent(install.events + 1),
                                  !.banner = "flex"]
    /\ UNCHANGED <<ai, dom, pending, timers, last>>

\* the click listener of installBtn up to its await, lines 370-375
InstallClick ==
    /\ install.banner = "flex"
    /\ install' =
          IF install.deferredPrompt.t = "event"
          THEN [install EXCEPT !.banner = "none",
                               !.waiting = @ \cup {install.deferredPrompt.n}]
          ELSE [install EXCEPT !.banner = "none", !.threw = TRUE]
    /\ UNCHANGED <<ai, dom, pending, timers, last>>

\* userChoice of a prompt that was shown resolves and the listener runs to
\* its end, lines 375-379
UserChoice ==
    /\ \E n \in install.waiting :
          install' = [install EXCEPT !.waiting = @ \ {n}, !.deferredPrompt = Null]
    /\ UNCHANGED <<ai, dom, pending, timers, last>>

\* the click listener of dismissBtn, lines 382-384
DismissClick ==
    /\ install.banner = "flex"
    /\ install' = [install EXCEPT !.banner = "none"]
    /\ UNCHANGED <<ai, dom, pending, timers, last>>

\* the `appinstalled` listener, lines 386-390
AppInstalled ==
    /\ install' = [install EXCEPT !.banner = "none", !.deferredPrompt = Null]
    /\ UNCHANGED <<ai, dom, pending, timers, last>>

NextInstall ==
    BeforeInstallPrompt \/ InstallClick \/ UserChoice \/ DismissClick \/ AppInstalled

SpecInstall == Init /\ [][NextInstall]_vars

(***************************************************************************)
(* The extraction specification: one fetch cycle whose reply text is any   *)
(* token sequence of at most MaxTextLen tokens, alone or between two       *)
(* objects (a text that starts with '{' and ends with '}'), and the longer *)
(* texts in which the first fenced block is not the only choice: a block   *)
(* followed by a second closing marker or by a second block.               *)
(***************************************************************************)
Texts ==
    LET plain == UNION {[1..n -> Tokens] : n \in 0..MaxTextLen}
        contents == {<<>>, <<TokDoc>>, <<TokValue>>, <<TokProse>>}
        Block(c) == <<TokFence, TokNL>> \o c \o <<TokNL, TokTicks>>
    IN  plain \cup {<<TokDoc>> \o x \o <<TokDoc>> : x \in plain}
        \cup {Block(a) \o <<TokNL, TokTicks>> : a \in contents}
        \cup {Block(a) \o m \o Block(b) : a \in contents, b \in contents,
                                          m \in {<<>>, <<TokProse>>, <<TokNL>>}}

TextReplies ==
    {Fulfilled(Text(x), Doc(Summary("a"), Undefined, Undefined), Arr(<<ChunkA>>)) : x \in Texts}

FirstClick == last = NoCycle /\ Click

RespondText == pending > 0 /\ \E reply \in TextReplies : Settle(reply)

NextExtract == FirstClick \/ RespondText

SpecExtract == Init /\ [][NextExtract]_vars

(***************************************************************************)
(* The citation specification: one fetch cycle whose reply carries any     *)
(* list of at most MaxChunks grounding chunks; a chunk has no web          *)
(* reference, or one whose uri and title are each missing, empty or one of *)
(* two strings.                                                            *)
(***************************************************************************)
Uris == {Undefined, Str(""), Str("https://a"), Str("https://b")}
Titles == {Undefined, Str(""), Str("A"), Str("B")}
Chunks == {ChunkNoWeb} \cup {Chunk(Web(u, t)) : u \in Uris, t \in Titles}

CitedReplies ==
    {Fulfilled(Text(FencedText), Doc(Summary("a"), Undefined, Undefined), Arr(x)) :
        x \in UNION {[1..n -> Chunks] : n \in 0..MaxChunks}}

RespondCited == pending > 0 /\ \E reply \in CitedReplies : Settle(reply)

NextCite == FirstClick \/ RespondCited

SpecCite == Init /\ [][NextCite]_vars

(***************************************************************************)
(* The chart specification: one fetch cycle whose reply carries a sector   *)
(* array or an MWPL array of at most MaxItems items, every sample missing  *)
(* or a number; a sector object may carry a key the program does not       *)
(* declare.  The callbacks of the bars then run.                           *)
(***************************************************************************)
SectorPerfs ==
    {[t |-> "obj", current |-> a, oneWeekAgo |-> b, twoWeeksAgo |-> c, other |-> o] :
        a \in {Undefined, Num(10), Num(0)}, b \in {Undefined, Num(-20)},
        c \in {Undefined, Num(5)}, o \in {Undefined, Num(70), Str("")}}

MwplPerfs ==
    {Perf(a, b, c) : a \in {Undefined, Num(45), Num(120)}, b \in {Undefined, Num(7)},
                     c \in {Undefined, Num(-45)}}

StockName(i) == IF i % 2 = 1 THEN "RBLBANK" ELSE "SAIL"
StockUrl(i) == IF i % 2 = 1 THEN Str("https://www.moneycontrol.com/rblbank") ELSE Undefined

SectorArrays ==
    {Arr([i \in 1..Len(f) |-> Sector(IF i % 2 = 1 THEN "NIFTY IT" ELSE "NIFTY BANK", f[i])]) :
        f \in UNION {[1..n -> SectorPerfs] : n \in 0..MaxItems}}

MwplArrays ==
    {Arr([i \in 1..Len(f) |-> Stock(StockName(i), StockUrl(i), f[i])]) :
        f \in UNION {[1..n -> MwplPerfs] : n \in 0..MaxItems}}

ChartReplies ==
    {Fulfilled(Text(FencedText), Doc(Undefined, x, Undefined), Undefined) : x \in SectorArrays}
    \cup {Fulfilled(Text(FencedText), Doc(Undefined, Undefined, x), Undefined) : x \in MwplArrays}

RespondChart == pending > 0 /\ \E reply \in ChartReplies : Settle(reply)

NextChart == FirstClick \/ RespondChart \/ WidthTimer

SpecChart == Init /\ [][NextChart]_vars

(***************************************************************************)
(* The overlap specification: fetchNews has no lock of its own (line 253   *)
(* tests only the client), so a call that does not come through the        *)
(* disabled button starts a second request while one is in flight.         *)
(***************************************************************************)
Reinvoke ==
    /\ pending \in 1..(MaxInFlight - 1)
    /\ Len(timers) <= MaxStaleTimers
    /\ FetchNews

\* the replies of overlapping requests: every outcome and every set of
\* sections, with and without citations
OverlapReplies ==
    {Rejected("ApiError: quota exceeded"), Fulfilled(Text(ProseText), EmptyDoc, Undefined)}
    \cup {Fulfilled(Text(FencedText), d, Undefined) :
            d \in {EmptyDoc,
                   Doc(Summary("a"), Undefined, Undefined),
                   Doc(Summary("b"), Undefined, Undefined),
                   Doc(Undefined, SectorA, Undefined),
                   Doc(Undefined, SectorB, Undefined),
                   Doc(Undefined, Undefined, MwplA),
                   Doc(Summary("a"), SectorA, MwplA),
                   Doc(Summary("a"), SectorNullSample, Undefined),
                   Doc(Summary("a"), SectorA, MwplNoMwpl)}}
    \cup {Fulfilled(Text(FencedText), Doc(Summary("a"), Undefined, Undefined), c) :
            c \in ChunkLists}
    \cup {Fulfilled(Text(FencedText), Doc(Summary("a"), SectorA, MwplA),
                    Arr(<<ChunkA, ChunkB, ChunkA>>))}

RespondOverlap == pending > 0 /\ \E reply \in OverlapReplies : Settle(reply)

NextOverlap == Click \/ Reinvoke \/ RespondOverlap \/ WidthTimer

SpecOverlap == Init /\ [][NextOverlap]_vars

(***************************************************************************)
(* Properties.                                                             *)
(***************************************************************************)
Shown(el) == dom[el].display = "block"
ResultContainers == {"newsContainer", "performanceContainer", "mwplContainer", "sourcesContainer"}
Settled == pending = 0 /\ last # NoCycle
HandledText == last.reply.settle = "fulfilled" /\ last.reply.text # Undefined
ErrorCause == dom.errorMessage.textContent[2]
ErrorReported(cause) ==
    /\ last.outcome = "Failed"
    /\ Shown("errorMessage")
    /\ dom.errorMessage.textContent = <<FetchErrorPrefix, cause>>
NothingRendered ==
    /\ \A c \in Containers : dom[c].html = NoHtml
    /\ dom.sourcesList = <<>>
    /\ \A c \in ResultContainers : ~Shown(c)

\* The rule of the specification, stated on the text itself: a fenced block
\* is an opening marker followed by a newline at i and a newline followed by
\* a closing marker at j; the first block is the least such (i, j).
IsBlock(s, i, j) ==
    /\ i + 2 <= j /\ j + 1 <= Len(s)
    /\ s[i] = TokFence /\ s[i + 1] = TokNL
    /\ s[j] = TokNL /\ s[j + 1] \in {TokTicks, TokFence}
HasBlock(s) == \E i, j \in 1..Len(s) : IsBlock(s, i, j)
FirstBlockContent(s) ==
    LET i == CHOOSE a \in 1..Len(s) :
                 /\ \E j \in 1..Len(s) : IsBlock(s, a, j)
                 /\ \A b \in 1..(a - 1) : \A j \in 1..Len(s) : ~IsBlock(s, b, j)
        j == CHOOSE a \in 1..Len(s) :
                 IsBlock(s, i, a) /\ \A b \in 1..(a - 1) : ~IsBlock(s, i, b)
    IN  SubSeq(s, i + 2, j - 1)
RECURSIVE StripLeft(_)
StripLeft(s) == IF s # <<>> /\ Head(s) = TokNL THEN StripLeft(Tail(s)) ELSE s
RECURSIVE StripRight(_)
StripRight(s) ==
    IF s # <<>> /\ s[Len(s)] = TokNL THEN StripRight(SubSeq(s, 1, Len(s) - 1)) ELSE s
Stripped(s) == StripRight(StripLeft(s))
BareFramed(s) == Stripped(s) # <<>> /\ Head(Stripped(s)) = TokDoc /\ Stripped(s)[Len(Stripped(s))] = TokDoc
\* the candidate is, apart from white space, one JSON value / the object
IsJson(c) ==
    \E k \in 1..Len(c) : /\ c[k] \in {TokDoc, TokValue, TokNull}
                         /\ \A m \in 1..Len(c) : m # k => c[m] = TokNL
IsObject(c) == \E k \in 1..Len(c) : c[k] = TokDoc /\ \A m \in 1..Len(c) : m # k => c[m] = TokNL

\* the candidate by the rule as the specification words it: any fenced block
RuleAnyBlock(s) ==
    IF HasBlock(s) THEN [found |-> TRUE, candidate |-> FirstBlockContent(s)]
    ELSE IF BareFramed(s) THEN [found |-> TRUE, candidate |-> Stripped(s)]
    ELSE [found |-> FALSE, candidate |-> <<>>]

\* the candidate the code takes: an empty first block counts as no block
\* (line 300 tests the capture for truthiness)
RuleNonEmptyBlock(s) ==
    IF HasBlock(s) /\ FirstBlockContent(s) # <<>>
    THEN [found |-> TRUE, candidate |-> FirstBlockContent(s)]
    ELSE IF BareFramed(s) THEN [found |-> TRUE, candidate |-> Stripped(s)]
    ELSE [found |-> FALSE, candidate |-> <<>>]

ExtractionFollows(rule) ==
    /\ ExtractPayload(last.reply.text.tokens).found = rule.found
    /\ ExtractPayload(last.reply.text.tokens).jsonString = rule.candidate
    /\ rule.found => /\ ~ErrorReported(FormatErrorCause)
                     /\ IsObject(rule.candidate) => last.outcome = "Success"
    /\ ~rule.found => ErrorReported(FormatErrorCause)

\* C7 as stated: for every handled reply text the candidate is the content
\* of the first fenced block if the text has one, else the trimmed text if
\* it is framed by braces, else the cycle fails with the format error.
C7_AnyBlockIsCandidate ==
    (Settled /\ HandledText) => ExtractionFollows(RuleAnyBlock(last.reply.text.tokens))

ParseErrorFollows(rule) ==
    (rule.found /\ ~IsJson(rule.candidate)) =>
        /\ ErrorReported(SyntaxErrorCause)
        /\ SyntaxErrorCause # FormatErrorCause
        /\ NothingRendered

\* C8 as stated: a located candidate (any fenced block, empty or not, or a
\* brace-framed text) that is not valid JSON ends the cycle with the parse
\* error, and nothing of the reply is rendered.
C8_AnyInvalidIsParseError ==
    (Settled /\ HandledText) => ParseErrorFollows(RuleAnyBlock(last.reply.text.tokens))

Loading == pending > 0
ControlReleased == ~dom.fetchBtn.disabled /\ dom.loader.display = "none"

\* C1: every cycle that enters Loading leaves it, and whenever no request
\* is pending after a handled reply (rendered, rejected, no JSON, bad JSON,
\* exception in a section or the citations) the control is enabled and the
\* loading indicator is hidden.
C1_LoadingEndsReleased ==
    /\ [](Settled => ControlReleased)
    /\ (Loading ~> (~Loading /\ ControlReleased))

\* a cycle that ended by an exception in the citations, after the summary
C1_Witness ==
    /\ Settled /\ ControlReleased
    /\ last.reply.chunks = Arr(<<ChunkA, Null>>)
    /\ last.outcome = "Failed"
    /\ dom.newsContainer.html # NoHtml

\* C2: while a request is pending the control is disabled, and at most one
\* request is pending.
C2_SingleInFlight ==
    /\ Loading => (dom.fetchBtn.disabled /\ dom.loader.display = "block")
    /\ pending <= 1

\* a second cycle is loading
C2_Witness == pending = 1 /\ dom.fetchBtn.disabled /\ last # NoCycle

VisibleKinds ==
    {k \in {"results", "error", "loader"} :
        \/ k = "results" /\ \E c \in ResultContainers : Shown(c)
        \/ k = "error" /\ Shown("errorMessage")
        \/ k = "loader" /\ Shown("loader")}

\* C3: while a request is pending exactly one of results, error banner and
\* loading indicator is visible; after a cycle that ended in Success every
\* container that was rendered is visible.
C3_OneVisibleThenAllRendered ==
    /\ Loading => Cardinality(VisibleKinds) = 1
    /\ (Settled /\ last.outcome = "Success") =>
           /\ \A c \in Containers : dom[c].html # NoHtml => Shown(c)
           /\ dom.sourcesList # <<>> => Shown("sourcesContainer")

\* a Success with all four result containers rendered
C3_Witness ==
    /\ Settled /\ last.outcome = "Success"
    /\ \A c \in ResultContainers : Shown(c)
    /\ dom.sourcesList # <<>>

\* C4: after a cycle that ended in Failed the four result containers are
\* hidden and the error banner shows one message: the prefix and the cause.
C4_FailedHidesResults ==
    (Settled /\ last.outcome = "Failed") =>
        /\ \A c \in ResultContainers : ~Shown(c)
        /\ Shown("errorMessage")
        /\ Len(dom.errorMessage.textContent) = 2
        /\ dom.errorMessage.textContent[1] = FetchErrorPrefix
        /\ ErrorCause \in {FormatErrorCause, SyntaxErrorCause, TypeErrorCause, last.reply.reason}
        /\ ErrorCause # ""
        /\ last.reply.settle = "rejected" => ErrorCause = last.reply.reason

\* a failure in the MWPL chart after the summary and the sector chart were rendered
C4_Witness ==
    /\ Settled /\ last.outcome = "Failed"
    /\ dom.newsContainer.html # NoHtml
    /\ dom.performanceContainer.html # NoHtml
    /\ dom.performanceContainer.html.items # <<>>
    /\ ~Shown("newsContainer") /\ ~Shown("performanceContainer")

\* The shapes of section 6 of the specification.
SampleShaped(v) == v = Undefined \/ v.t = "num"
PerfShaped(p) == p.t = "obj" /\ \A k \in PerfKeys : SampleShaped(p[k])
SectorShapedValue(x) ==
    x.t = "arr" /\ \A i \in 1..Len(x.v) : PerfShaped(x.v[i].performance)
MwplShapedValue(x) ==
    x.t = "arr" /\ \A i \in 1..Len(x.v) : PerfShaped(x.v[i].mwpl)
DocShaped(data) ==
    /\ data.summary = Undefined \/ data.summary.t = "obj"
    /\ data.sectorPerformance = Undefined \/ SectorShapedValue(data.sectorPerformance)
    /\ data.mwplPerformance = Undefined \/ MwplShapedValue(data.mwplPerformance)
ChunksShaped(chunks) ==
    chunks = Undefined \/ (chunks.t = "arr" /\ \A i \in 1..Len(chunks.v) : chunks.v[i] # Null)

\* the reply handled last carried a JSON object that was parsed
Parsed ==
    /\ Settled /\ HandledText
    /\ RuleNonEmptyBlock(last.reply.text.tokens).found
    /\ IsObject(RuleNonEmptyBlock(last.reply.text.tokens).candidate)

\* C5 as stated: whatever the shape of the parsed object, the cycle ends in
\* Success.
C5_ShapeDefectsAreOmitted ==
    (Parsed /\ ChunksShaped(last.reply.chunks)) => last.outcome = "Success"

SectionContainer ==
    [summary |-> "newsContainer", sectorPerformance |-> "performanceContainer",
     mwplPerformance |-> "mwplContainer"]

\* C6: for every parsed object whose sections are each absent or of the
\* documented shape the cycle ends in Success, the container of every
\* present section is visible and the container of every absent section is
\* hidden and empty.
C6_SectionsIndependent ==
    (Parsed /\ DocShaped(last.reply.data) /\ ChunksShaped(last.reply.chunks)) =>
        /\ last.outcome = "Success"
        /\ \A k \in DOMAIN SectionContainer :
              IF last.reply.data[k] # Undefined
              THEN Shown(SectionContainer[k]) /\ dom[SectionContainer[k]].html # NoHtml
              ELSE ~Shown(SectionContainer[k]) /\ dom[SectionContainer[k]].html = NoHtml

\* summary and MWPL present, sector absent
C6_Witness ==
    /\ Parsed
    /\ last.reply.data.summary # Undefined
    /\ last.reply.data.sectorPerformance = Undefined
    /\ last.reply.data.mwplPerformance # Undefined
    /\ Shown("newsContainer") /\ Shown("mwplContainer") /\ ~Shown("performanceContainer")

\* C9: when the client could not be constructed no request is ever pending,
\* the loading indicator and the result containers are never visible, no
\* reply is ever handled and the error banner is visible.
C9_InitErrorDisables ==
    ~ai =>
        /\ pending = 0 /\ last = NoCycle
        /\ ~Shown("loader")
        /\ \A c \in ResultContainers : ~Shown(c)
        /\ Shown("errorMessage")

\* the trigger was activated without a client
C9_Witness == ~ai /\ dom.errorMessage.textContent = <<NotInitializedMessage>>

\* The reply handled on a page that never showed anything.
Fresh(reply) == Continuation(SetLoading([dom |-> InitialDom, timers |-> <<>>], TRUE), reply)

EraseWidths(html) ==
    IF html.kind # "chart" THEN html
    ELSE [html EXCEPT !.items =
            [i \in 1..Len(html.items) |->
                [html.items[i] EXCEPT !.bars =
                    [j \in 1..Len(html.items[i].bars) |->
                        [html.items[i].bars[j] EXCEPT !.width = NoWidth]]]]]

\* the width the reply's own render computed for bar j of item i
OwnWidth(fresh, c, i, j) ==
    LET k == CHOOSE k \in 1..Len(fresh.timers) :
                 /\ fresh.timers[k].container = c
                 /\ fresh.timers[k].item = i
                 /\ fresh.timers[k].bar = j
    IN  fresh.timers[k].width

ClearedForLoading ==
    /\ \A c \in Containers : dom[c] = [display |-> "none", html |-> NoHtml]
    /\ dom.sourcesList = <<>>
    /\ ~Shown("sourcesContainer")
    /\ ~Shown("errorMessage")

FromLastReplyOnly ==
    LET fresh == Fresh(last.reply)
    IN  /\ \A c \in Containers :
              /\ dom[c].display = fresh.dom[c].display
              /\ Shown(c) =>
                    /\ EraseWidths(dom[c].html) = fresh.dom[c].html
                    /\ dom[c].html.kind = "chart" =>
                          \A i \in 1..Len(dom[c].html.items) :
                              \A j \in 1..Len(dom[c].html.items[i].bars) :
                                  dom[c].html.items[i].bars[j].width
                                      \in {NoWidth, OwnWidth(fresh, c, i, j)}
        /\ dom.sourcesContainer = fresh.dom.sourcesContainer
        /\ Shown("sourcesContainer") => dom.sourcesList = fresh.dom.sourcesList
        /\ dom.errorMessage.display = fresh.dom.errorMessage.display
        /\ Shown("errorMessage") => dom.errorMessage = fresh.dom.errorMessage

\* C10: while a request is pending every result container and the citation
\* list are empty and hidden and the error banner is hidden; after the
\* cycle has settled everything visible is what the reply handled last
\* produces on a page that never showed anything, each bar width being
\* unset or the width computed for that bar from this reply.
C10_PreviousCycleDiscarded ==
    /\ Loading => ClearedForLoading
    /\ Settled => FromLastReplyOnly

\* a callback of the previous cycle is still queued while the new chart
\* shows a bar at the same position with another width of its own
C10_Witness ==
    /\ Settled /\ timers # <<>>
    /\ LET t == Head(timers)
           html == dom[t.container].html
       IN  /\ ~t.inDoc
           /\ Shown(t.container)
           /\ html.kind = "chart"
           /\ t.item <= Len(html.items)
           /\ t.bar <= Len(html.items[t.item].bars)
           /\ OwnWidth(Fresh(last.reply), t.container, t.item, t.bar) # t.width

\* C11 as stated: after overlapping cycles have settled, everything visible
\* is what the reply handled last alone produces.
C11_LastHandledAlone == Settled => FromLastReplyOnly

\* What handling a reply that failed writes (fresh: the page the reply
\* alone produces): the result containers are hidden and the banner shows
\* the reply's message alone.
FailureWrites(fresh) ==
    /\ \A c \in ResultContainers : dom'[c].display = "none"
    /\ fresh.dom.errorMessage.display = "block"
    /\ dom'.errorMessage = fresh.dom.errorMessage

\* What handling a reply that succeeded writes: the container of every
\* section the reply carries is what the reply alone produces, the citation
\* list is the reply's own when it carries grounding chunks, and the
\* citation container is shown when that list has a link; every other
\* container, the citation list of a reply without grounding chunks, the
\* citation container of a reply without a link and the error banner are
\* as they were before the reply was handled.
OwnWritesOnly(reply, fresh) ==
    /\ \A c \in Containers :
          dom'[c] = IF fresh.dom[c].display = "block" THEN fresh.dom[c] ELSE dom[c]
    /\ dom'.sourcesList = IF Truthy(reply.chunks) THEN fresh.dom.sourcesList
                          ELSE dom.sourcesList
    /\ dom'.sourcesContainer = IF fresh.dom.sourcesContainer.display = "block"
                               THEN fresh.dom.sourcesContainer
                               ELSE dom.sourcesContainer
    /\ dom'.errorMessage = dom.errorMessage

\* A callback changes the width of bars and nothing else on the page.
WidthsOnly ==
    /\ \A c \in Containers :
          /\ dom'[c].display = dom[c].display
          /\ EraseWidths(dom'[c].html) = EraseWidths(dom[c].html)
    /\ dom'.sourcesList = dom.sourcesList
    /\ dom'.sourcesContainer = dom.sourcesContainer
    /\ dom'.errorMessage = dom.errorMessage

\* C11: with overlapping cycles the last write wins for each container on
\* its own.  Handling a reply that failed leaves the result containers
\* hidden and the banner with its message alone.  Handling a reply that
\* succeeded replaces what the reply carries (its sections, its citation
\* list when it has grounding chunks, the citation container when it has a
\* link) and leaves everything else, the error banner included, as the
\* reply handled before it left it.  Between and after the replies, while
\* no request is started, only bar widths change.
C11_LastWritePerContainer ==
    [][/\ pending' = pending - 1 =>
              \E handled \in {last'} : \E fresh \in {Fresh(handled.reply)} :
                  IF handled.outcome = "Failed" THEN FailureWrites(fresh)
                  ELSE OwnWritesOnly(handled.reply, fresh)
       /\ (ai /\ pending' = pending) => WidthsOnly]_vars

\* the reply handled last carried a summary and no sector chart; the chart
\* of a reply handled before it is still visible next to its summary
C11_Witness ==
    /\ Settled /\ last.outcome = "Success"
    /\ last.reply.data.sectorPerformance = Undefined
    /\ Shown("newsContainer")
    /\ Shown("performanceContainer")
    /\ dom.performanceContainer.html.items # <<>>

\* The citation rule of section 4.4 of the specification, on a candidate
\* list: the candidates kept, and of those the first of every (uri, title).
Present(v) == v.t = "str" /\ v.s # ""
HasUri(chunk) == chunk.web # Undefined /\ Present(chunk.web.uri)
SamePair(a, b) == a.web.uri = b.web.uri /\ a.web.title = b.web.title
FirstOfPair(chunks) ==
    {i \in 1..Len(chunks) :
        /\ HasUri(chunks[i])
        /\ \A j \in 1..(i - 1) : HasUri(chunks[j]) => ~SamePair(chunks[j], chunks[i])}
\* the k-th smallest element of a set of numbers
Nth(S, k) == CHOOSE i \in S : Cardinality({j \in S : j < i}) = k - 1

Cited == Settled /\ last.outcome = "Success" /\ last.reply.chunks # Undefined

\* C12: the rendered list has one link for the first candidate of every
\* distinct (uri, title) pair among the candidates that carry a uri, in the
\* order of the candidates; its target is the uri and its text the title,
\* or the uri when there is no title.
C12_OneLinkPerPair ==
    Cited =>
        LET chunks == last.reply.chunks.v
            first == FirstOfPair(chunks)
        IN  /\ Len(dom.sourcesList) = Cardinality(first)
            /\ \A k \in 1..Len(dom.sourcesList) :
                  LET web == chunks[Nth(first, k)].web
                  IN  /\ dom.sourcesList[k].href = web.uri.s
                      /\ dom.sourcesList[k].textContent =
                             IF Present(web.title) THEN web.title.s ELSE web.uri.s

\* three candidates of one uri: two of one title around one of another
C12_Witness ==
    /\ Cited
    /\ Len(last.reply.chunks.v) = 3
    /\ \A i \in 1..3 : HasUri(last.reply.chunks.v[i])
    /\ SamePair(last.reply.chunks.v[1], last.reply.chunks.v[3])
    /\ last.reply.chunks.v[1].web.uri = last.reply.chunks.v[2].web.uri
    /\ Present(last.reply.chunks.v[1].web.title)
    /\ Present(last.reply.chunks.v[2].web.title)
    /\ ~SamePair(last.reply.chunks.v[1], last.reply.chunks.v[2])
    /\ Len(dom.sourcesList) = 2
    /\ dom.sourcesList[1].textContent # dom.sourcesList[2].textContent

\* C13: the citation container is visible only after a cycle whose reply
\* carried at least one candidate with a uri, and then the list is not
\* empty; it is hidden while a request is pending and after every cycle
\* whose reply has no grounding chunks or none with a uri, whatever the
\* cycles before it showed.
C13_CitationsShownOnlyWhenAny ==
    Shown("sourcesContainer") =>
        /\ Settled
        /\ last.outcome = "Success"
        /\ last.reply.chunks # Undefined
        /\ FirstOfPair(last.reply.chunks.v) # {}
        /\ dom.sourcesList # <<>>

\* a later cycle (a callback of an earlier chart is still queued) whose
\* reply has grounding chunks, none of them with a uri
C13_Witness ==
    /\ Settled /\ last.outcome = "Success"
    /\ last.reply.chunks # Undefined
    /\ last.reply.chunks.v # <<>>
    /\ FirstOfPair(last.reply.chunks.v) = {}
    /\ ~Shown("sourcesContainer")
    /\ Shown("newsContainer")
    /\ timers # <<>> /\ ~Head(timers).inDoc

\* The charts of the reply handled last: container, items of the section
\* and the object of an item that carries the samples.
ChartSections == {"sectorPerformance", "mwplPerformance"}
Charted(k) == Settled /\ last.outcome = "Success" /\ last.reply.data[k] # Undefined
Samples(k, item) == IF k = "sectorPerformance" THEN item.performance ELSE item.mwpl
Label(k, item) == IF k = "sectorPerformance" THEN item.sector ELSE item.stock
PresentPeriods(perf) == {p \in 1..3 : perf[Periods[p]] # Undefined}
PeriodOfBar(bar) == bar.className[Len(bar.className)]

\* C14: in both charts every item of the section has its label and a bar
\* group whose bars are those of the periods with a value, in the order
\* current, oneWeekAgo, twoWeeksAgo, each showing its value (0 included);
\* a period without a value has no bar.
C14_BarsOfPresentPeriods ==
    \A k \in ChartSections :
        Charted(k) =>
            LET items == last.reply.data[k].v
                shown == dom[SectionContainer[k]].html.items
            IN  /\ Len(shown) = Len(items)
                /\ \A i \in 1..Len(items) :
                      LET present == PresentPeriods(Samples(k, items[i]))
                      IN  /\ shown[i].label.text = Label(k, items[i])
                          /\ Len(shown[i].bars) = Cardinality(present)
                          /\ \A j \in 1..Len(shown[i].bars) :
                                LET p == Nth(present, j)
                                IN  /\ PeriodOfBar(shown[i].bars[j]) = PeriodClass[p]
                                    /\ shown[i].bars[j].value =
                                           Samples(k, items[i])[Periods[p]].n

\* a sector chart of two items: the first has a bar for a current value of
\* 0, none for oneWeekAgo and one for twoWeeksAgo; the second has no sample
C14_Witness ==
    /\ Charted("sectorPerformance")
    /\ Len(dom.performanceContainer.html.items) = 2
    /\ LET a == dom.performanceContainer.html.items[1].bars
           b == dom.performanceContainer.html.items[2]
       IN  /\ Len(a) = 2
           /\ a[1].value = 0 /\ PeriodOfBar(a[1]) = "current"
           /\ PeriodOfBar(a[2]) = "two-weeks"
           /\ b.bars = <<>> /\ b.label.text = "NIFTY BANK"

\* The relative-max scale of section 4.3 of the specification: the largest
\* magnitude among the samples of the three periods of all items, at least 1.
DeclaredMagnitudes(items) ==
    {Abs(items[x[1]].performance[Periods[x[2]]].n) :
        x \in {y \in (1..Len(items)) \X (1..3) :
                  items[y[1]].performance[Periods[y[2]]] # Undefined}}
RelativeMax(items) == SetMax(DeclaredMagnitudes(items) \cup {1})

\* The width is num / den percent to four decimal places: its first four
\* decimals are those of num / den, or of the decimal just below it.
Decimals4(width) ==
    width.whole * 10000
        + DigitValue([i \in 1..4 |-> IF i <= Len(width.frac) THEN width.frac[i] ELSE 0])
IsPercent(width, num, den) ==
    /\ width.unit = "%"
    /\ Decimals4(width) * den <= num * 10000
    /\ num * 10000 <= (Decimals4(width) + 1) * den
AtMostFull(width) ==
    width.unit = "%" /\ (width.whole < 100 \/ (width.whole = 100 /\ width.frac = <<>>))

\* C15 as stated: in the sector chart every bar is classed positive when
\* its value is at least 0 and negative otherwise, no width exceeds 100%,
\* and once the callbacks have run every bar is |value| / max * 100 percent
\* wide, max being the largest magnitude (at least 1) among the samples of
\* the three declared periods of all items.
C15_RelativeMaxScale ==
    Charted("sectorPerformance") =>
        LET shown == dom.performanceContainer.html.items
            max == RelativeMax(last.reply.data.sectorPerformance.v)
        IN  \A i \in 1..Len(shown) : \A j \in 1..Len(shown[i].bars) :
              LET bar == shown[i].bars[j]
              IN  /\ bar.className[2] = IF bar.value >= 0 THEN "positive" ELSE "negative"
                  /\ bar.width # NoWidth => AtMostFull(bar.width)
                  /\ timers = <<>> => IsPercent(bar.width, Abs(bar.value) * 100, max)

\* every bar of the MWPL chart has the two classes chart-bar and its
\* period, and its width, once set, is Scaled[value] / 100 * 100 percent
\* (in double precision: to the last place); all are set once the callbacks
\* have run
MwplScale(Scaled) ==
    Charted("mwplPerformance") =>
        LET shown == dom.mwplContainer.html.items
        IN  \A i \in 1..Len(shown) : \A j \in 1..Len(shown[i].bars) :
              LET bar == shown[i].bars[j]
              IN  /\ Len(bar.className) = 2
                  /\ bar.className[1] = "chart-bar"
                  /\ bar.width # NoWidth => IsPercent(bar.width, Scaled[bar.value] * 100, 100)
                  /\ timers = <<>> => bar.width # NoWidth

\* C16 as stated: the width of every MWPL bar is value / 100 * 100 percent.
C16_WidthIsValue == MwplScale([v \in Int |-> v])

\* C16: the width of every MWPL bar is |value| / 100 * 100 percent in
\* double precision, which is the value itself, to the last place, when it
\* is not negative: it depends on no other item, is not clamped (above 100%
\* for a value above 100), and the bar carries no sign class.
C16_WidthIsMagnitude == MwplScale([v \in Int |-> Abs(v)])

\* an MWPL chart with bars of 120%, 7.000000000000001% for the value 7, 45%
\* for -45 and 45% for 45
C16_Witness ==
    /\ Charted("mwplPerformance") /\ timers = <<>>
    /\ Len(dom.mwplContainer.html.items) = 2
    /\ \E j \in 1..Len(dom.mwplContainer.html.items[1].bars) :
          LET bar == dom.mwplContainer.html.items[1].bars[j]
          IN  bar.value = 120 /\ bar.width.float = "120"
    /\ \E j \in 1..Len(dom.mwplContainer.html.items[1].bars) :
          LET bar == dom.mwplContainer.html.items[1].bars[j]
          IN  bar.value = 7 /\ bar.width.float = "7.000000000000001"
    /\ \E j \in 1..Len(dom.mwplContainer.html.items[1].bars) :
          LET bar == dom.mwplContainer.html.items[1].bars[j]
          IN  bar.value = -45 /\ bar.width.float = "45"
    /\ \E j \in 1..Len(dom.mwplContainer.html.items[2].bars) :
          LET bar == dom.mwplContainer.html.items[2].bars[j]
          IN  bar.value = 45 /\ bar.width.float = "45"

ChartContainers == {"performanceContainer", "mwplContainer"}

\* the bars of the charts on the page, each as <<container, item, bar>>
BarsOnPage ==
    {b \in ChartContainers \X (1..3) \X (1..3) :
        /\ dom[b[1]].html.kind = "chart"
        /\ b[2] <= Len(dom[b[1]].html.items)
        /\ b[3] <= Len(dom[b[1]].html.items[b[2]].bars)}
WidthOnPage(b) == dom[b[1]].html.items[b[2]].bars[b[3]].width

\* the callbacks queued for the bar that is on the page at b
CallbacksFor(b) ==
    {k \in 1..Len(timers) :
        /\ timers[k].inDoc
        /\ <<timers[k].container, timers[k].item, timers[k].bar>> = b}

\* A bar on the page either waits for its one callback, its width not set,
\* or its callback has run and its width is the one computed when the bar
\* was created; a callback that holds a bar of the page holds one that is
\* attached.
WidthAfterAttach ==
    /\ \A b \in BarsOnPage :
          LET computed == OwnWidth(Fresh(last.reply), b[1], b[2], b[3])
          IN  \/ /\ WidthOnPage(b) = NoWidth
                 /\ Cardinality(CallbacksFor(b)) = 1
                 /\ \A k \in CallbacksFor(b) : timers[k].width = computed
              \/ /\ WidthOnPage(b) = computed
                 /\ CallbacksFor(b) = {}
    /\ \A k \in 1..Len(timers) :
          timers[k].inDoc =>
              <<timers[k].container, timers[k].item, timers[k].bar>> \in BarsOnPage

SomeWidthUnset == \E b \in BarsOnPage : WidthOnPage(b) = NoWidth

\* C17: the width of a bar is set only by its callback, which runs after
\* the bar was attached, and to the width computed when the bar was
\* created; every queued callback runs, so the bars of a chart on the page
\* all get their width (unless a new cycle removes the chart first), and
\* once no callback is queued every bar has its computed width.
C17_WidthsAppliedAfterAttach ==
    /\ []WidthAfterAttach
    /\ [](timers = <<>> => ~SomeWidthUnset)
    /\ (SomeWidthUnset ~> ~SomeWidthUnset)

\* both charts are on the page, the callbacks of some bars have run and
\* set their widths, those of other bars are still queued
C17_Witness ==
    /\ Settled /\ timers # <<>>
    /\ Head(timers).inDoc
    /\ \E b \in BarsOnPage : WidthOnPage(b) # NoWidth
    /\ SomeWidthUnset
    /\ dom.mwplContainer.html.kind = "chart"
    /\ dom.performanceContainer.html.kind = "chart"

\* C18: when no request is pending, a visible result container implies
\* that the error banner is hidden.
C18_ResultsExcludeError ==
    pending = 0 => ((\E c \in ResultContainers : Shown(c)) => ~Shown("errorMessage"))

\* results are shown after a cycle that succeeded; the banner is hidden and
\* still holds the message of a cycle that failed before
C18_Witness ==
    /\ Settled /\ last.outcome = "Success"
    /\ \E c \in ResultContainers : Shown(c)
    /\ ~Shown("errorMessage")
    /\ Len(dom.errorMessage.textContent) = 2

PromptStashed == install.deferredPrompt.t = "event"

\* C19 as stated: whenever the install banner is displayed a prompt event
\* is stashed, and no install click calls prompt() on a missing one.
C19_BannerHasPrompt ==
    /\ install.banner = "flex" => PromptStashed
    /\ ~install.threw

====
